---- MODULE Spec2Model ----
(***************************************************************************)
(* A model of the bananavirt signal-graph engine (src/src/engine.rs) and   *)
(* of its DSP modules (src/src/envelope_generator.rs,                      *)
(* src/src/serge_modules.rs).                                              *)
(*                                                                         *)
(* f32 values are modelled as exact rationals <<numerator, denominator>>   *)
(* in lowest terms with a positive denominator: every arithmetic step of   *)
(* the code is carried out as written, without floating-point rounding.    *)
(***************************************************************************)
EXTENDS Integers, Sequences, FiniteSets, TLC

(***************************************************************************)
(* Bounds of the model.                                                    *)
(***************************************************************************)
\* longest output slice handed to EnvelopeGenerator::process when the
\* envelope is driven on its own
MaxOutLen == 1
\* AudioEngine::new(sample_rate, buffer_size): the configured buffer size
BufferSize == 2
\* most edges added and most process() cycles in a run
MaxEdges == 3
MaxCycles == 1
\* largest dest_input handed to connect_modules
MaxDestInput == 1
\* process calls made on a filter taken alone
MaxModuleCalls == 3
\* process calls made on an oscillator taken alone
MaxVcoCalls == 2
\* samples the wired patch processes before a note on is still accepted
MaxIdleSamples == 4
\* samples the wired patch processes while a note is held
MaxGateSamples == 4860
\* samples the wired patch processes after a note off
MaxReleaseSamples == 8830
\* process() cycles of the control loop of run()
MaxRunCycles == 3
\* bounded::<Vec<f32>>(2): the capacity of the channel to the audio callback
QueueCapacity == 2

(***************************************************************************)
(* Rational arithmetic.  The operations are functions, so that their       *)
(* arguments are evaluated once.                                           *)
(***************************************************************************)
Rat == Int \X Int

GCD[a \in Nat, b \in Nat] == IF b = 0 THEN a ELSE GCD[b, a % b]

Abs(x) == IF x < 0 THEN -x ELSE x

Norm[n \in Int, d \in Int] ==
    LET s == IF d < 0 THEN -1 ELSE 1
        g == GCD[Abs(n), Abs(d)]
    IN  <<(s * n) \div g, (s * d) \div g>>

R(n, d) == Norm[n, d]

Zero == <<0, 1>>
One == <<1, 1>>

\* sums over the least common denominator and products reduced crosswise
\* keep the intermediate integers small
FAdd[a \in Rat, b \in Rat] ==
    LET g == GCD[a[2], b[2]]
    IN  R(a[1] * (b[2] \div g) + b[1] * (a[2] \div g), a[2] * (b[2] \div g))
FNeg[a \in Rat] == <<-a[1], a[2]>>
FSub[a \in Rat, b \in Rat] == FAdd[a, FNeg[b]]
FMul[a \in Rat, b \in Rat] ==
    LET g == GCD[Abs(a[1]), Abs(b[2])]
        h == GCD[Abs(b[1]), Abs(a[2])]
    IN  R((a[1] \div g) * (b[1] \div h), (a[2] \div h) * (b[2] \div g))
FDiv[a \in Rat, b \in Rat] == FMul[a, <<b[2], b[1]>>]

RAdd(a, b) == FAdd[a, b]
RSub(a, b) == FSub[a, b]
RMul(a, b) == FMul[a, b]
RDiv(a, b) == FDiv[a, b]
RLe(a, b) == a[1] * b[2] <= b[1] * a[2]
RLt(a, b) == a[1] * b[2] < b[1] * a[2]
RGe(a, b) == RLe(b, a)
\* f32::max and f32::min
RMax(a, b) == IF RLe(a, b) THEN b ELSE a
RMin(a, b) == IF RLe(a, b) THEN a ELSE b

(***************************************************************************)
(* EnvelopeGenerator (src/src/envelope_generator.rs).                      *)
(***************************************************************************)
EnvelopeStage == {"Idle", "Attack", "Decay", "Sustain", "Release"}

\* EnvelopeGenerator::new
EG_new ==
    [attack |-> <<1, 100>>, decay |-> <<1, 10>>, sustain |-> <<1, 2>>,
     release |-> <<1, 5>>, stage |-> "Idle", current_level |-> Zero,
     gate |-> FALSE]

set_attack(e, attack) ==
    [e EXCEPT !.attack = RMin(RMax(attack, <<1, 1000>>), <<10, 1>>)]

set_decay(e, decay) ==
    [e EXCEPT !.decay = RMin(RMax(decay, <<1, 1000>>), <<10, 1>>)]

set_sustain(e, sustain) ==
    [e EXCEPT !.sustain = RMin(RMax(sustain, Zero), One)]

set_release(e, release) ==
    [e EXCEPT !.release = RMin(RMax(release, <<1, 1000>>), <<10, 1>>)]

\* trigger_on restarting the envelope from zero
trigger_on_reset(e) ==
    [e EXCEPT !.gate = TRUE, !.stage = "Attack", !.current_level = Zero]

trigger_on(e) == [e EXCEPT !.gate = TRUE, !.stage = "Attack"]

\* trigger_off that clears the gate and leaves the stage as it is
trigger_off_gate_only(e) == [e EXCEPT !.gate = FALSE]

trigger_off(e) == [e EXCEPT !.gate = FALSE, !.stage = "Release"]

\* the sample period of a 48 kHz stream
sample_time_48k == RDiv(One, <<48000, 1>>)

\* let sample_time = 1.0 / 44100.0
sample_time == RDiv(One, <<44100, 1>>)

\* the Release arm without the floor at 0.0
release_sample_unclamped(e) ==
    [e EXCEPT !.current_level =
                  RSub(e.current_level,
                       RMul(RDiv(sample_time, e.release), e.sustain))]

\* the Release arm of the match in EnvelopeGenerator::process
release_sample(e) ==
    LET l == RSub(e.current_level,
                  RMul(RDiv(sample_time, e.release), e.sustain))
    IN  IF RLe(l, Zero)
        THEN [e EXCEPT !.current_level = Zero, !.stage = "Idle"]
        ELSE [e EXCEPT !.current_level = l]

\* the loop body with the Attack stage left only above 1.0 (> for >=)
EG_sample_strict(e) ==
    CASE e.stage = "Idle" ->
            [e EXCEPT !.current_level = Zero]
      [] e.stage = "Attack" ->
            LET l == RAdd(e.current_level, RDiv(sample_time, e.attack))
            IN  IF RLt(One, l)
                THEN [e EXCEPT !.current_level = One, !.stage = "Decay"]
                ELSE [e EXCEPT !.current_level = l]
      [] e.stage = "Decay" ->
            LET l == RSub(e.current_level,
                          RMul(RDiv(sample_time, e.decay),
                               RSub(One, e.sustain)))
            IN  IF RLe(l, e.sustain)
                THEN [e EXCEPT !.current_level = e.sustain,
                               !.stage = "Sustain"]
                ELSE [e EXCEPT !.current_level = l]
      [] e.stage = "Sustain" ->
            [e EXCEPT !.current_level = e.sustain]
      [] e.stage = "Release" ->
            LET l == RSub(e.current_level,
                          RMul(RDiv(sample_time, e.release), e.sustain))
            IN  IF RLe(l, Zero)
                THEN [e EXCEPT !.current_level = Zero, !.stage = "Idle"]
                ELSE [e EXCEPT !.current_level = l]

\* one iteration of the loop of EnvelopeGenerator::process: the match on
\* self.stage
EG_sample(e) ==
    CASE e.stage = "Idle" ->
            [e EXCEPT !.current_level = Zero]
      [] e.stage = "Attack" ->
            LET l == RAdd(e.current_level, RDiv(sample_time, e.attack))
            IN  IF RGe(l, One)
                THEN [e EXCEPT !.current_level = One, !.stage = "Decay"]
                ELSE [e EXCEPT !.current_level = l]
      [] e.stage = "Decay" ->
            LET l == RSub(e.current_level,
                          RMul(RDiv(sample_time, e.decay),
                               RSub(One, e.sustain)))
            IN  IF RLe(l, e.sustain)
                THEN [e EXCEPT !.current_level = e.sustain,
                               !.stage = "Sustain"]
                ELSE [e EXCEPT !.current_level = l]
      [] e.stage = "Sustain" ->
            [e EXCEPT !.current_level = e.sustain]
      [] e.stage = "Release" -> release_sample(e)

\* EnvelopeGenerator::process on an output slice of n samples: the state
\* after the loop and the samples written, *output = current_level * 5.0
RECURSIVE EG_process(_, _)
EG_process(e, n) ==
    IF n = 0
    THEN [eg |-> e, outputs |-> <<>>]
    ELSE LET r == EG_process(e, n - 1)
             s == EG_sample(r.eg)
         IN  [eg |-> s,
              outputs |-> Append(r.outputs,
                                 RMul(s.current_level, <<5, 1>>))]

(***************************************************************************)
(* SergeVCO and SergeVCF (src/src/serge_modules.rs).                       *)
(***************************************************************************)
\* SergeVCO::new
VCO_new == [frequency |-> <<440, 1>>, fm_amount |-> One, phase |-> Zero]

\* SergeVCO::set_frequency and SergeVCO::set_fm_amount
set_frequency(v, freq) ==
    [v EXCEPT !.frequency = RMin(RMax(freq, <<20, 1>>), <<20000, 1>>)]

set_fm_amount(v, amount) ==
    [v EXCEPT !.fm_amount = RMin(RMax(amount, Zero), One)]

\* the loop of SergeVCO::process: n samples at the given frequency
RECURSIVE VCO_loop(_, _, _)
VCO_loop(v, frequency, n) ==
    IF n = 0
    THEN [vco |-> v, outputs |-> <<>>]
    ELSE LET r == VCO_loop(v, frequency, n - 1)
             p == RAdd(r.vco.phase, RDiv(frequency, <<44100, 1>>))
             q == IF RGe(p, One) THEN RSub(p, One) ELSE p
         IN  [vco |-> [r.vco EXCEPT !.phase = q],
              outputs |-> Append(r.outputs,
                                 RMul(RSub(RMul(q, <<2, 1>>), One), <<5, 1>>))]

\* SergeVCO::process; inputs is the concatenated input buffer (0-based in the
\* code, 1-based here); reading past its end panics
VCO_process(v, inputs, n) ==
    IF Len(inputs) < 2
    THEN [panic |-> TRUE, vco |-> v, outputs |-> <<>>]
    ELSE LET fm_input == RMul(inputs[1], v.fm_amount)
             eg_input == inputs[2]
             frequency == RMul(RMul(v.frequency, RAdd(One, fm_input)),
                               RAdd(One, eg_input))
             r == VCO_loop(v, frequency, n)
         IN  [panic |-> FALSE, vco |-> r.vco, outputs |-> r.outputs]

\* SergeVCF::new
VCF_new == [cutoff |-> <<1000, 1>>, resonance |-> <<1, 2>>,
            last_output |-> Zero]

\* SergeVCF::set_cutoff and SergeVCF::set_resonance
set_cutoff(f, cutoff) ==
    [f EXCEPT !.cutoff = RMin(RMax(cutoff, <<20, 1>>), <<20000, 1>>)]

set_resonance(f, resonance) ==
    [f EXCEPT !.resonance = RMin(RMax(resonance, Zero), <<99, 100>>)]

\* let alpha = (2.0 * PI * cutoff / 44100.0).tan()
\*           / (2.0 * PI * cutoff / 44100.0).tan() + 1.0
\* The quotient divides a value by itself.  The cutoff is clamped to
\* [20, 20000], its angle lies in [0.0028, 2.85], where the f32 tangent is
\* finite and not zero, so the quotient is 1.0 whatever the cutoff is.
VCF_alpha(cutoff) == RAdd(One, One)

\* the loop of SergeVCF::process
RECURSIVE VCF_loop(_, _, _, _)
VCF_loop(f, input, alpha, n) ==
    IF n = 0
    THEN [vcf |-> f, outputs |-> <<>>]
    ELSE LET r == VCF_loop(f, input, alpha, n - 1)
             y == RAdd(r.vcf.last_output,
                       RMul(alpha, RSub(input, r.vcf.last_output)))
         IN  [vcf |-> [r.vcf EXCEPT !.last_output = y],
              outputs |-> Append(r.outputs, RMul(y, <<5, 1>>))]

\* SergeVCF::process
VCF_process(f, inputs, n) ==
    IF Len(inputs) < 3
    THEN [panic |-> TRUE, vcf |-> f, outputs |-> <<>>]
    ELSE LET input == inputs[1]
             cutoff_cv == inputs[2]
             eg_input == inputs[3]
             cutoff == RMin(RMax(RMul(RMul(f.cutoff, RAdd(One, cutoff_cv)),
                                      RAdd(One, eg_input)),
                                 <<20, 1>>), <<20000, 1>>)
             r == VCF_loop(f, input, VCF_alpha(cutoff), n)
         IN  [panic |-> FALSE, vcf |-> r.vcf, outputs |-> r.outputs]

(***************************************************************************)
(* State.                                                                  *)
(***************************************************************************)
VARIABLES
    modules,            \* AudioEngine.modules: the keys of the registry
    nodes,              \* AudioEngine.module_graph: node weights, by NodeIndex
    edges,              \* AudioEngine.module_graph: edges, in insertion order
    processing_order,   \* AudioEngine.processing_order
    cycles,             \* number of process() calls made so far
    eg, vco, vcf,       \* the module instances behind the Arc<Mutex<..>>
    call,               \* the last engine call and its arguments
    ret,                \* what that call returned to its caller
    logged,             \* whether that call wrote to log::error!
    produced,           \* the buffers the modules wrote, in processing order,
                        \* when the last call was process()
    triggered_from,     \* the stage in which the last envelope call, if it
                        \* was trigger_on, found the envelope
    walked,             \* the modules the last call ran, in the order it ran
                        \* them, when the last call was process()
    elapsed,            \* samples processed since the last note command of
                        \* the command context
    pc,                 \* where the control loop and the command context are
    held,               \* per mutex, the threads that hold a guard of it
    walk,               \* the process() call the control loop is inside of:
                        \* the next position of the order and the walk so far
    queue               \* the buffers in the channel from run() to the
                        \* audio callback, oldest first

engine_vars == <<modules, nodes, edges, processing_order, cycles, vco, vcf,
                 call, ret, logged, produced, walked>>

thread_vars == <<elapsed, pc, held, walk, queue>>

graph_vars == <<modules, nodes, edges, processing_order, call, ret, logged,
                produced, walked>>
vars == <<engine_vars, eg, triggered_from, thread_vars>>

(***************************************************************************)
(* The modules main() constructs, and their identities.                    *)
(***************************************************************************)
Mods == {"vco", "vcf", "eg"}
\* the identities a caller can hand to the engine: a module is unknown to
\* the engine until add_module has registered it
ModuleId == Mods

\* ModuleBase::new(name, input_count, ..) in the three constructors
input_count(id) ==
    CASE id = "vco" -> 2
      [] id = "vcf" -> 3
      [] id = "eg" -> 1

\* every module declares one output port
SourceOutputs == {0}
DestInputs == 0 .. MaxDestInput

(***************************************************************************)
(* The module graph (petgraph::DiGraph) and its topological sort.          *)
(***************************************************************************)
\* module_graph.node_indices().find(|&n| module_graph[n] == id); 0 is None
find_node(n, id) ==
    IF \E i \in 1 .. Len(n) : n[i] = id
    THEN CHOOSE i \in 1 .. Len(n) :
            n[i] = id /\ \A j \in 1 .. (i - 1) : n[j] # id
    ELSE 0

\* the order that puts node i at position q[i]
order_of(q) ==
    [i \in DOMAIN q |-> CHOOSE node \in DOMAIN q : q[node] = i]

\* toposort(&module_graph, None): Ok(order) for any order in which every
\* edge's source precedes its target; Err when there is none (a cycle, a
\* self-loop included), here the empty set
toposort(n, e) ==
    {order_of(q) :
        q \in {p \in Permutations(1 .. Len(n)) :
                  \A i \in 1 .. Len(e) : p[e[i].source] < p[e[i].target]}}

\* the order emptied when toposort reports a cycle
update_processing_order_clear(sorted, old) ==
    IF sorted # {} THEN sorted ELSE {<<>>}

\* update_processing_order with the Ok arm lost: the order is never replaced
update_processing_order_stale(sorted, old) == {old}

\* AudioEngine::update_processing_order, given the result of toposort: the
\* values processing_order can have afterwards
update_processing_order(sorted, old) ==
    IF sorted # {} THEN sorted ELSE {old}

\* the Err arm of update_processing_order: log::error!
cycle_logged(sorted) == sorted = {}

\* module_graph.edges_directed(node, Incoming): the edges into node, the
\* most recently added first
RECURSIVE edges_directed(_, _, _)
edges_directed(e, node, k) ==
    IF k = 0 THEN <<>>
    ELSE IF e[k].target = node
         THEN <<e[k]>> \o edges_directed(e, node, k - 1)
         ELSE edges_directed(e, node, k - 1)

(***************************************************************************)
(* AudioEngine::process (src/src/engine.rs).                               *)
(***************************************************************************)
\* vec![0.0; buffer_size]
zeros == [i \in 1 .. BufferSize |-> Zero]

\* the loop over the incoming edges adding every source to the slot instead
\* of replacing what the slot holds
RECURSIVE collect_inputs_mixed(_, _, _, _)
collect_inputs_mixed(inputs, incoming, n, module_outputs) ==
    IF incoming = <<>>
    THEN [panic |-> FALSE, inputs |-> inputs]
    ELSE LET edge == Head(incoming)
             dest_input == edge.weight[2]
             source_id == n[edge.source]
         IN  IF source_id \in DOMAIN module_outputs
             THEN IF dest_input < Len(inputs)
                  THEN collect_inputs_mixed(
                           [inputs EXCEPT
                               ![dest_input + 1] =
                                   [i \in 1 .. BufferSize |->
                                       RAdd(@[i],
                                            module_outputs[source_id][i])]],
                           Tail(incoming), n, module_outputs)
                  ELSE [panic |-> TRUE, inputs |-> inputs]
             ELSE collect_inputs_mixed(inputs, Tail(incoming), n,
                                       module_outputs)

\* the loop over the incoming edges: inputs[dest_input] = source_output
\* for every edge whose source has an entry in module_outputs; an index past
\* the end of inputs panics
RECURSIVE collect_inputs(_, _, _, _)
collect_inputs(inputs, incoming, n, module_outputs) ==
    IF incoming = <<>>
    THEN [panic |-> FALSE, inputs |-> inputs]
    ELSE LET edge == Head(incoming)
             dest_input == edge.weight[2]
             source_id == n[edge.source]
         IN  IF source_id \in DOMAIN module_outputs
             THEN IF dest_input < Len(inputs)
                  THEN collect_inputs(
                           [inputs EXCEPT
                               ![dest_input + 1] = module_outputs[source_id]],
                           Tail(incoming), n, module_outputs)
                  ELSE [panic |-> TRUE, inputs |-> inputs]
             ELSE collect_inputs(inputs, Tail(incoming), n, module_outputs)

\* inputs.concat()
RECURSIVE concat(_)
concat(inputs) ==
    IF inputs = <<>> THEN <<>> ELSE Head(inputs) \o concat(Tail(inputs))

\* module.lock().process(&inputs.concat(), &mut outputs): dispatch on the
\* module behind the identity; m holds the three module instances
module_process(m, module_id, inputs) ==
    CASE module_id = "eg" ->
            LET r == EG_process(m.eg, BufferSize)
            IN  [panic |-> FALSE, m |-> [m EXCEPT !.eg = r.eg],
                 outputs |-> r.outputs]
      [] module_id = "vco" ->
            LET r == VCO_process(m.vco, inputs, BufferSize)
            IN  [panic |-> r.panic, m |-> [m EXCEPT !.vco = r.vco],
                 outputs |-> r.outputs]
      [] module_id = "vcf" ->
            LET r == VCF_process(m.vcf, inputs, BufferSize)
            IN  [panic |-> r.panic, m |-> [m EXCEPT !.vcf = r.vcf],
                 outputs |-> r.outputs]

\* module_outputs.insert(module_id, outputs) after the module ran with
\* result r; a panic inside the module ends the walk
store_outputs(w, module_id, r) ==
    IF r.panic
    THEN [w EXCEPT !.panic = TRUE, !.m = r.m]
    ELSE [panic |-> FALSE,
          m |-> r.m,
          module_outputs |->
              [id \in DOMAIN w.module_outputs \cup {module_id} |->
                  IF id = module_id THEN r.outputs
                  ELSE w.module_outputs[id]],
          produced |-> Append(w.produced, r.outputs),
          walked |-> Append(w.walked, module_id)]

\* the module is processed on the inputs c collected for it
run_module(w, module_id, c) ==
    IF c.panic
    THEN [w EXCEPT !.panic = TRUE]
    ELSE store_outputs(w, module_id,
                       module_process(w.m, module_id, concat(c.inputs)))

\* one iteration of `for &node_index in &self.processing_order`; w is the
\* walk so far: the module instances, module_outputs, the buffers produced
\* and whether the call has panicked (a panic ends the walk)
process_node(w, n, e, node_index) ==
    IF w.panic
    THEN w
    ELSE run_module(w, n[node_index],
                    collect_inputs(
                        [k \in 1 .. input_count(n[node_index]) |-> zeros],
                        edges_directed(e, node_index, Len(e)), n,
                        w.module_outputs))

\* the walk over the first k entries of the processing order
RECURSIVE process_walk(_, _, _, _, _)
process_walk(m, n, e, order, k) ==
    IF k = 0
    THEN [panic |-> FALSE, m |-> m, module_outputs |-> <<>>,
          produced |-> <<>>, walked |-> <<>>]
    ELSE process_node(process_walk(m, n, e, order, k - 1), n, e, order[k])

\* process() returning the output of the first module of the order
process_result_first(w, n, order) ==
    IF order # <<>>
    THEN LET first_module_id == n[order[1]]
         IN  IF first_module_id \in DOMAIN w.module_outputs
             THEN w.module_outputs[first_module_id]
             ELSE zeros
    ELSE zeros

\* the value process() returns after the walk w: the entry of module_outputs
\* for the last module of the processing order, zeros without one
process_result(w, n, order) ==
    IF order # <<>>
    THEN LET last_module_id == n[order[Len(order)]]
         IN  IF last_module_id \in DOMAIN w.module_outputs
             THEN w.module_outputs[last_module_id]
             ELSE zeros
    ELSE zeros

(***************************************************************************)
(* The operations of AudioEngine.                                          *)
(***************************************************************************)
Unit == [kind |-> "unit"]

\* main(): AudioEngine::new and the three module constructors
Init ==
    /\ modules = {}
    /\ nodes = <<>>
    /\ edges = <<>>
    /\ processing_order = <<>>
    /\ cycles = 0
    /\ eg = EG_new
    /\ vco = VCO_new
    /\ vcf = VCF_new
    /\ call = [op |-> "new"]
    /\ ret = Unit
    /\ logged = FALSE
    /\ produced = <<>>
    /\ triggered_from = "None"
    /\ walked = <<>>
    /\ elapsed = 0
    /\ pc = [run |-> "lock", input |-> "read"]
    /\ held = [mutex \in {"engine"} \cup Mods |-> {}]
    /\ walk = <<>>
    /\ queue = <<>>

\* AudioEngine::add_module; as in main(), a module is registered once
add_module(module) ==
    /\ module \notin modules
    /\ nodes' = Append(nodes, module)
    /\ modules' = modules \cup {module}
    /\ LET sorted == toposort(nodes', edges)
       IN  /\ processing_order' \in
                  update_processing_order(sorted, processing_order)
           /\ logged' = cycle_logged(sorted)
    /\ call' = [op |-> "add_module", module |-> module]
    /\ ret' = [kind |-> "id", id |-> module]
    /\ produced' = <<>>
    /\ walked' = <<>>
    /\ UNCHANGED <<edges, cycles, eg, vco, vcf, triggered_from>>

\* connect_modules with the lookup of the source left unchecked: an unknown
\* source falls back to the first node
connect_modules_unchecked(source, source_output, destination, dest_input) ==
    LET found == find_node(nodes, source)
        src_index == IF found = 0 /\ nodes # <<>> THEN 1 ELSE found
        dest_index == find_node(nodes, destination)
    IN  /\ call' = [op |-> "connect_modules", source |-> source,
                    source_output |-> source_output,
                    destination |-> destination, dest_input |-> dest_input]
        /\ ret' = Unit
        /\ IF src_index # 0 /\ dest_index # 0
           THEN /\ edges' = Append(edges,
                              [source |-> src_index,
                               target |-> dest_index,
                               weight |-> <<source_output, dest_input>>])
                /\ LET sorted == toposort(nodes, edges')
                   IN  /\ processing_order' \in
                              update_processing_order(sorted,
                                                      processing_order)
                       /\ logged' = cycle_logged(sorted)
           ELSE /\ logged' = FALSE
                /\ UNCHANGED <<edges, processing_order>>
        /\ produced' = <<>>
        /\ walked' = <<>>
        /\ UNCHANGED <<modules, nodes, cycles, eg, vco, vcf, triggered_from>>

\* AudioEngine::connect_modules
connect_modules(source, source_output, destination, dest_input) ==
    LET src_index == find_node(nodes, source)
        dest_index == find_node(nodes, destination)
    IN  /\ call' = [op |-> "connect_modules", source |-> source,
                    source_output |-> source_output,
                    destination |-> destination, dest_input |-> dest_input]
        /\ ret' = Unit
        /\ IF src_index # 0 /\ dest_index # 0
           THEN /\ edges' = Append(edges,
                              [source |-> src_index,
                               target |-> dest_index,
                               weight |-> <<source_output, dest_input>>])
                /\ LET sorted == toposort(nodes, edges')
                   IN  /\ processing_order' \in
                              update_processing_order(sorted,
                                                      processing_order)
                       /\ logged' = cycle_logged(sorted)
           ELSE /\ logged' = FALSE
                /\ UNCHANGED <<edges, processing_order>>
        /\ produced' = <<>>
        /\ walked' = <<>>
        /\ UNCHANGED <<modules, nodes, cycles, eg, vco, vcf, triggered_from>>

\* the end of AudioEngine::process after the walk w: the module instances
\* keep what the walk did to them and the caller gets the buffer, or the
\* panic
process_return(w) ==
    /\ eg' = w.m.eg
    /\ vco' = w.m.vco
    /\ vcf' = w.m.vcf
    /\ produced' = w.produced
    /\ walked' = w.walked
    /\ ret' = IF w.panic
              THEN [kind |-> "panic"]
              ELSE [kind |-> "buffer",
                    buffer |-> process_result(w, nodes, processing_order)]

\* AudioEngine::process
process_call ==
    /\ cycles' = cycles + 1
    /\ process_return(process_walk([eg |-> eg, vco |-> vco, vcf |-> vcf],
                                   nodes, edges, processing_order,
                                   Len(processing_order)))
    /\ call' = [op |-> "process"]
    /\ logged' = FALSE
    /\ UNCHANGED <<modules, nodes, edges, processing_order, triggered_from>>

\* AudioEngine::process, called a bounded number of times
process ==
    /\ cycles < MaxCycles
    /\ process_call
    /\ UNCHANGED thread_vars

Next ==
    \/ \E module \in Mods : add_module(module) /\ UNCHANGED thread_vars
    \/ \E source, destination \in ModuleId :
        \E source_output \in SourceOutputs, dest_input \in DestInputs :
            /\ Len(edges) < MaxEdges
            /\ connect_modules(source, source_output, destination,
                               dest_input)
            /\ UNCHANGED thread_vars
    \/ process

Spec == Init /\ [][Next]_vars

(***************************************************************************)
(* The envelope generator driven on its own: the setter and trigger calls  *)
(* of handle_user_input (src/src/main.rs) and process calls on output      *)
(* slices of 1 .. MaxOutLen samples.                                       *)
(***************************************************************************)
\* seconds handed to set_attack, set_decay and set_release: below the
\* clamp, stored as 0.001
TimeArgs == {<<0, 1>>}
\* levels handed to set_sustain: below and above the clamp
SustainArgs == {<<-1, 2>>, <<3, 2>>}

call_set_attack ==
    /\ \E value \in TimeArgs : eg' = set_attack(eg, value)
    /\ triggered_from' = "None"
    /\ UNCHANGED <<engine_vars, thread_vars>>

call_set_decay ==
    /\ \E value \in TimeArgs : eg' = set_decay(eg, value)
    /\ triggered_from' = "None"
    /\ UNCHANGED <<engine_vars, thread_vars>>

call_set_sustain ==
    /\ \E value \in SustainArgs : eg' = set_sustain(eg, value)
    /\ triggered_from' = "None"
    /\ UNCHANGED <<engine_vars, thread_vars>>

call_set_release ==
    /\ \E value \in TimeArgs : eg' = set_release(eg, value)
    /\ triggered_from' = "None"
    /\ UNCHANGED <<engine_vars, thread_vars>>

call_trigger_on ==
    /\ eg' = trigger_on(eg)
    /\ triggered_from' = eg.stage
    /\ UNCHANGED <<engine_vars, thread_vars>>

call_trigger_off ==
    /\ eg' = trigger_off(eg)
    /\ triggered_from' = "None"
    /\ UNCHANGED <<engine_vars, thread_vars>>

call_process ==
    /\ \E n \in 1 .. MaxOutLen : eg' = EG_process(eg, n).eg
    /\ triggered_from' = "None"
    /\ UNCHANGED <<engine_vars, thread_vars>>

\* note on, note off and the attack time, with the envelope processed
NextGate ==
    \/ call_set_attack
    \/ call_trigger_on
    \/ call_trigger_off
    \/ call_process

SpecGate == Init /\ [][NextGate]_vars

\* note on and the attack time, with the envelope processed
NextAttack ==
    \/ call_set_attack
    \/ call_trigger_on
    \/ call_process

SpecAttack == Init /\ [][NextAttack]_vars

\* the control loop of run() calls process() for ever
SpecAttackFair == SpecAttack /\ WF_vars(call_process)

\* every envelope operation
NextEG ==
    \/ call_set_attack
    \/ call_set_decay
    \/ call_set_sustain
    \/ call_set_release
    \/ call_trigger_on
    \/ call_trigger_off
    \/ call_process

SpecEG == Init /\ [][NextEG]_vars

SpecEGFair == SpecEG /\ WF_vars(call_process)

(***************************************************************************)
(* The oscillator and the filter taken alone: their setters and process,   *)
(* called on the instance as the command context and the engine call them. *)
(***************************************************************************)
\* frequencies handed to set_cutoff: below, inside and above the clamp
FrequencyArgs == {<<10, 1>>, <<100, 1>>, <<500, 1>>, <<2000, 1>>,
                  <<30000, 1>>}
\* amounts handed to set_resonance
AmountArgs == {<<-1, 1>>, <<1, 4>>, <<3, 4>>, <<2, 1>>}
\* control voltages on an input: silence, the envelope at half and at full
\* level (level x 5.0), the oscillator at phase 0 ((0 x 2 - 1) x 5.0)
ControlVoltages == {Zero, <<5, 2>>, <<5, 1>>, <<-5, 1>>}

call_set_frequency ==
    /\ \E freq \in {<<10, 1>>, <<1000, 1>>, <<30000, 1>>} :
           vco' = set_frequency(vco, freq)
    /\ UNCHANGED <<graph_vars, cycles, vcf, eg, triggered_from, thread_vars>>

call_set_fm_amount ==
    /\ \E amount \in {<<-1, 1>>, <<1, 2>>, <<2, 1>>} :
           vco' = set_fm_amount(vco, amount)
    /\ UNCHANGED <<graph_vars, cycles, vcf, eg, triggered_from, thread_vars>>

\* SergeVCO::process on a buffer whose first two values are the voltages
call_vco_process ==
    /\ cycles < MaxVcoCalls
    /\ cycles' = cycles + 1
    /\ \E fm, cv \in ControlVoltages : \E n \in 1 .. MaxOutLen :
           vco' = VCO_process(vco, <<fm, cv>>, n).vco
    /\ UNCHANGED <<graph_vars, vcf, eg, triggered_from, thread_vars>>

NextVCO ==
    \/ call_set_frequency
    \/ call_set_fm_amount
    \/ call_vco_process

SpecVCO == Init /\ [][NextVCO]_vars

call_set_cutoff ==
    /\ \E cutoff \in FrequencyArgs : vcf' = set_cutoff(vcf, cutoff)
    /\ UNCHANGED <<graph_vars, cycles, vco, eg, triggered_from, thread_vars>>

call_set_resonance ==
    /\ \E resonance \in AmountArgs : vcf' = set_resonance(vcf, resonance)
    /\ UNCHANGED <<graph_vars, cycles, vco, eg, triggered_from, thread_vars>>

\* SergeVCF::process on a unit step: the signal input is 1.0 in every call
call_vcf_process ==
    /\ cycles < MaxModuleCalls
    /\ cycles' = cycles + 1
    /\ \E cutoff_cv, cv \in ControlVoltages : \E n \in 1 .. MaxOutLen :
           vcf' = VCF_process(vcf, <<One, cutoff_cv, cv>>, n).vcf
    /\ UNCHANGED <<graph_vars, vco, eg, triggered_from, thread_vars>>

NextVCF ==
    \/ call_set_cutoff
    \/ call_set_resonance
    \/ call_vcf_process

SpecVCF == Init /\ [][NextVCF]_vars

(***************************************************************************)
(* The patch of main() (src/src/main.rs): the three modules wired as in    *)
(* lines 27-34, the notes of the command context and the control loop.     *)
(***************************************************************************)
\* main(): the registrations and the connections, in their order
main_wire ==
    /\ \/ nodes = <<>> /\ add_module("vco")
       \/ nodes = <<"vco">> /\ add_module("vcf")
       \/ nodes = <<"vco", "vcf">> /\ add_module("eg")
       \/ Len(nodes) = 3 /\ Len(edges) = 0
            /\ connect_modules("vco", 0, "vcf", 0)
       \/ Len(nodes) = 3 /\ Len(edges) = 1
            /\ connect_modules("eg", 0, "vco", 1)
       \/ Len(nodes) = 3 /\ Len(edges) = 2
            /\ connect_modules("eg", 0, "vcf", 2)

\* main() has wired the patch
Wired == Len(nodes) = 3 /\ Len(edges) = 3

\* engine.lock().get_module(eg_id) of the command context
get_module_eg ==
    /\ "eg" \in modules
    /\ call' = [op |-> "get_module", id |-> "eg"]
    /\ ret' = [kind |-> "module", id |-> "eg"]
    /\ logged' = FALSE
    /\ produced' = <<>>
    /\ walked' = <<>>
    /\ UNCHANGED <<modules, nodes, edges, processing_order, cycles, vco, vcf>>

\* samples the envelope needs to reach the sustain level from a note on at
\* level zero, and to reach zero from a note off at the sustain level
attack_decay_samples(e) == RMul(RAdd(e.attack, e.decay), <<44100, 1>>)
release_samples(e) == RMul(e.release, <<44100, 1>>)

\* every sample of the last buffer lies more than t samples after the last
\* note command
BufferAfter(t) == RLt(t, <<elapsed - BufferSize + 1, 1>>)

\* "note on", given within the first samples of the run
note_on ==
    /\ Wired
    /\ eg.stage = "Idle"
    /\ cycles * BufferSize = elapsed
    /\ elapsed <= MaxIdleSamples
    /\ get_module_eg
    /\ eg' = trigger_on(eg)
    /\ triggered_from' = eg.stage
    /\ elapsed' = 0
    /\ UNCHANGED <<pc, held, walk, queue>>

\* "note off", given once the held note has passed its attack and decay
note_off ==
    /\ Wired
    /\ eg.stage = "Sustain"
    /\ BufferAfter(attack_decay_samples(eg))
    /\ get_module_eg
    /\ eg' = trigger_off(eg)
    /\ triggered_from' = "None"
    /\ elapsed' = 0
    /\ UNCHANGED <<pc, held, walk, queue>>

\* the control loop of run(): engine.lock().process()
run_process ==
    /\ Wired
    /\ elapsed < (IF eg.gate THEN MaxGateSamples ELSE MaxReleaseSamples)
    /\ process_call
    /\ elapsed' = elapsed + BufferSize
    /\ UNCHANGED <<pc, held, walk, queue>>

NextPatch ==
    \/ main_wire /\ UNCHANGED thread_vars
    \/ note_on
    \/ note_off
    \/ run_process

SpecPatch == Init /\ [][NextPatch]_vars

(***************************************************************************)
(* The two threads of main() on the wired patch: the control loop of run() *)
(* and the command context of handle_user_input, with the mutex around the *)
(* engine and the mutex around each module.                                *)
(***************************************************************************)
\* Mutex::lock with every other guard alive: a lock that does not wait
can_lock_always(mutex) == TRUE

\* parking_lot::Mutex::lock returns once no guard of the mutex is alive
can_lock(mutex) == held[mutex] = {}

\* the module instances as they are now
instances == [eg |-> eg, vco |-> vco, vcf |-> vcf]

\* the guard of the mutex that the thread holds is never dropped
drop_guard_never(h, mutex, thread) == h

\* the MutexGuard of the thread goes out of scope
drop_guard(h, mutex, thread) == [h EXCEPT ![mutex] = @ \ {thread}]

\* run(): engine.lock(), and process() is entered
run_lock ==
    /\ Wired
    /\ pc.run = "lock"
    /\ cycles < MaxRunCycles
    /\ can_lock("engine")
    /\ held' = [held EXCEPT !["engine"] = @ \cup {"run"}]
    /\ pc' = [pc EXCEPT !.run = "process"]
    /\ walk' = [k |-> 1, entered |-> instances,
                w |-> process_walk(instances, nodes, edges,
                                   processing_order, 0)]
    /\ UNCHANGED <<engine_vars, eg, triggered_from, elapsed, queue>>

\* process(): one iteration of the loop over the processing order, with
\* module.lock() around the module's process
run_module_step ==
    /\ pc.run = "process"
    /\ walk.k <= Len(processing_order)
    /\ can_lock(nodes[processing_order[walk.k]])
    /\ LET w == process_node([walk.w EXCEPT !.m = instances], nodes,
                             edges, processing_order[walk.k])
       IN  /\ walk' = [walk EXCEPT !.k = @ + 1, !.w = w]
           /\ eg' = w.m.eg
           /\ vco' = w.m.vco
           /\ vcf' = w.m.vcf
    /\ UNCHANGED <<graph_vars, cycles, triggered_from, elapsed, pc, held,
                   queue>>

\* process() returns and the guard of the engine is dropped at the end of
\* the statement
run_unlock ==
    /\ pc.run = "process"
    /\ walk.k > Len(processing_order)
    /\ cycles' = cycles + 1
    /\ produced' = walk.w.produced
    /\ walked' = walk.w.walked
    /\ ret' = IF walk.w.panic
              THEN [kind |-> "panic"]
              ELSE [kind |-> "buffer",
                    buffer |-> process_result(walk.w, nodes,
                                              processing_order)]
    /\ call' = [op |-> "process"]
    /\ logged' = FALSE
    /\ held' = drop_guard(held, "engine", "run")
    /\ pc' = [pc EXCEPT !.run = "send"]
    /\ walk' = [walk EXCEPT !.k = 0]
    /\ UNCHANGED <<modules, nodes, edges, processing_order, eg, vco, vcf,
                   triggered_from, elapsed, queue>>

\* tx.send(output), which blocks while the channel is full, and the sleep
\* of 10 ms
run_send ==
    /\ pc.run = "send"
    /\ ret.kind = "buffer"
    /\ Len(queue) < QueueCapacity
    /\ queue' = Append(queue, ret.buffer)
    /\ pc' = [pc EXCEPT !.run = "lock"]
    /\ UNCHANGED <<engine_vars, eg, triggered_from, elapsed, held, walk>>

\* the audio callback: rx.try_recv() takes the oldest buffer, if there is one
write_data ==
    /\ queue # <<>>
    /\ queue' = Tail(queue)
    /\ UNCHANGED <<engine_vars, eg, triggered_from, elapsed, pc, held, walk>>

\* handle_user_input: a line that holds a command has been read
input_read ==
    /\ Wired
    /\ pc.input = "read"
    /\ pc' = [pc EXCEPT !.input = "lock"]
    /\ UNCHANGED <<engine_vars, eg, triggered_from, elapsed, held, walk,
                   queue>>

\* handle_user_input: engine.lock() returns
input_lock ==
    /\ pc.input = "lock"
    /\ can_lock("engine")
    /\ held' = [held EXCEPT !["engine"] = @ \cup {"input"}]
    /\ pc' = [pc EXCEPT !.input = "engine"]
    /\ UNCHANGED <<engine_vars, eg, triggered_from, elapsed, walk, queue>>

\* get_module(id) under the guard of the engine, and module.lock()
input_get_module ==
    /\ pc.input = "engine"
    /\ \E id \in {"eg", "vco"} :
           /\ id \in modules
           /\ can_lock(id)
           /\ held' = [held EXCEPT ![id] = @ \cup {"input"}]
    /\ pc' = [pc EXCEPT !.input = "module"]
    /\ UNCHANGED <<engine_vars, eg, triggered_from, elapsed, walk, queue>>

\* the command is applied to the locked module and both guards are dropped
\* at the end of the `if let`
input_apply ==
    /\ pc.input = "module"
    /\ \/ /\ "input" \in held["eg"]
          /\ \/ eg' = trigger_on(eg)
             \/ eg' = trigger_off(eg)
             \/ \E value \in TimeArgs : eg' = set_attack(eg, value)
          /\ vco' = vco
       \/ /\ "input" \in held["vco"]
          /\ \E freq \in {<<1000, 1>>} : vco' = set_frequency(vco, freq)
          /\ eg' = eg
    /\ held' = [mutex \in DOMAIN held |-> held[mutex] \ {"input"}]
    /\ pc' = [pc EXCEPT !.input = "read"]
    /\ UNCHANGED <<graph_vars, cycles, vcf, triggered_from, elapsed, walk,
                   queue>>

NextLock ==
    \/ main_wire /\ UNCHANGED thread_vars
    \/ run_lock
    \/ run_module_step
    \/ run_unlock
    \/ run_send
    \/ write_data
    \/ input_read
    \/ input_lock
    \/ input_get_module
    \/ input_apply

SpecLock == Init /\ [][NextLock]_vars

\* what enables run_module_step: the loop is at a module of the order and
\* the mutex of that module is free
run_module_step_enabled ==
    /\ pc.run = "process"
    /\ walk.k <= Len(processing_order)
    /\ can_lock(nodes[processing_order[walk.k]])

\* the control loop runs on inside process() (weak fairness of
\* run_module_step, with its enabling condition written out, and of
\* run_unlock), and a thread parked on the engine mutex is handed it
SpecLockFair ==
    /\ SpecLock
    /\ ([]<>(~run_module_step_enabled) \/ []<><<run_module_step>>_vars)
    /\ WF_vars(run_unlock)
    /\ SF_vars(input_lock)

(***************************************************************************)
(* Notions the properties are stated with.                                 *)
(***************************************************************************)
\* the targets of the edges that leave a node of S
Successors(e, S) ==
    {e[i].target : i \in {j \in 1 .. Len(e) : e[j].source \in S}}

RECURSIVE Closure(_, _, _)
Closure(e, S, k) ==
    IF k = 0 THEN S ELSE Closure(e, S \cup Successors(e, S), k - 1)

\* the nodes reached from node a over one or more edges
ReachableFrom(e, a) == Closure(e, Successors(e, {a}), Len(e))

Acyclic(n, e) == \A a \in 1 .. Len(n) : a \notin ReachableFrom(e, a)

\* node a stands before node b in the order
Before(order, a, b) ==
    \E i, j \in 1 .. Len(order) : i < j /\ order[i] = a /\ order[j] = b

\* the last call was a connect_modules call that added an edge
EdgeAdded ==
    /\ call.op = "connect_modules"
    /\ call.source \in modules
    /\ call.destination \in modules

\* the edge that call added lies on a cycle
EdgeClosedCycle ==
    /\ EdgeAdded
    /\ LET edge == edges[Len(edges)]
       IN  edge.source \in ReachableFrom(edges, edge.source)

(***************************************************************************)
(* Properties of the engine, checked under Spec.                           *)
(***************************************************************************)
\* C1: whenever the connection graph is acyclic, the cached processing
\* order places the source of every connection strictly before its
\* destination.
C1_OrderRespectsEdges ==
    Acyclic(nodes, edges) =>
        \A i \in 1 .. Len(edges) :
            Before(processing_order, edges[i].source, edges[i].target)

\* C1 witness: two connections in a chain over three modules, ordered
C1_Witness ==
    /\ Acyclic(nodes, edges)
    /\ Len(edges) = 2
    /\ edges[1].target = edges[2].source
    /\ call.op = "connect_modules"
    /\ Len(processing_order) = 3

\* C2: a connection that would close a cycle is rejected, so the connection
\* graph is acyclic in every reachable state.
C2_GraphStaysAcyclic == Acyclic(nodes, edges)

\* C3: a connect_modules call whose edge closes a cycle returns a failure
\* to its caller.
C3_CycleReported == EdgeClosedCycle => ret.kind = "err"

\* C4: connect_modules with a source or destination that is not registered
\* changes neither the registry, nor the connections, nor the processing
\* order, and surfaces no error.
C4_UnknownModuleNoOp ==
    [][(/\ call'.op = "connect_modules"
        /\ (call'.source \notin modules \/ call'.destination \notin modules))
       => /\ UNCHANGED <<modules, nodes, edges, processing_order>>
          /\ ret' = Unit
          /\ logged' = FALSE]_vars

\* C4 witness: a call with an unknown source and a registered destination,
\* made on a graph that has connections
C4_Witness ==
    /\ call.op = "connect_modules"
    /\ call.source \notin modules
    /\ call.destination \in modules
    /\ edges # <<>>

\* C5: every process() call completes and returns buffer_size samples.
C5_ProcessReturnsBuffer ==
    call.op = "process" =>
        ret.kind = "buffer" /\ Len(ret.buffer) = BufferSize

\* C6: process() returns the buffer that the last module of the processing
\* order wrote in this cycle, and zeros when no module is registered.
C6_ReturnsLastOutput ==
    (call.op = "process" /\ ret.kind = "buffer") =>
        IF modules = {}
        THEN ret.buffer = zeros
        ELSE /\ processing_order # <<>>
             /\ Len(produced) = Len(processing_order)
             /\ ret.buffer = produced[Len(produced)]

\* C6 witness: a cycle over several modules that ended with a module whose
\* buffer is not silent
C6_Witness ==
    /\ call.op = "process"
    /\ ret.kind = "buffer"
    /\ Len(processing_order) >= 2
    /\ ret.buffer # zeros
    /\ produced[1] # ret.buffer

\* C7: every connection the graph holds has a dest_input below the declared
\* input count of its destination.
C7_PortIndexValidated ==
    \A i \in 1 .. Len(edges) :
        edges[i].weight[2] < input_count(nodes[edges[i].target])

(***************************************************************************)
(* Properties of the envelope generator.                                   *)
(***************************************************************************)
\* C8 (under SpecGate): a trigger_on call, in whatever stage it finds the
\* envelope, sets the gate and the Attack stage and leaves the level as it
\* was; after a trigger_on in Release the next output sample is not below
\* the level reached in Release, and is not zero.
C8_TriggerOnKeepsLevel ==
    /\ [][triggered_from' # "None" =>
            /\ eg'.gate
            /\ eg'.stage = "Attack"
            /\ eg'.current_level = eg.current_level]_vars
    /\ [](triggered_from = "Release" =>
            LET next_sample == EG_process(eg, 1).outputs[1]
            IN  /\ RGe(next_sample, RMul(eg.current_level, <<5, 1>>))
                /\ RLt(Zero, next_sample))

\* C8 witness: trigger_on has just been called in Release, at a level
\* above zero
C8_Witness ==
    /\ triggered_from = "Release"
    /\ eg.stage = "Attack"
    /\ eg.gate
    /\ RLt(Zero, eg.current_level)

\* C9 (under SpecAttackFair): in Attack a sample never lowers the level, it
\* leaves the envelope in Attack below 1.0 or in Decay at exactly 1.0, and
\* an envelope in Attack leaves Attack after finitely many samples.
C9_AttackRisesToOne ==
    /\ [](eg.stage = "Attack" =>
            LET s == EG_sample(eg)
            IN  /\ RLe(eg.current_level, s.current_level)
                /\ \/ s.stage = "Attack" /\ RLt(s.current_level, One)
                   \/ s.stage = "Decay" /\ s.current_level = One)
    /\ [][(eg.stage = "Attack" /\ eg'.stage = "Attack") =>
            RLe(eg.current_level, eg'.current_level)]_vars
    /\ ((eg.stage = "Attack") ~> (eg.stage # "Attack"))

\* C9 witness: the attack has reached 1.0 and handed over to Decay
C9_Witness ==
    /\ eg.stage = "Decay"
    /\ eg.current_level = One
    /\ eg.gate

\* C10 (under SpecEGFair): an envelope in Decay leaves Decay (for Sustain,
\* at the sustain level) and an envelope in Release leaves Release (for
\* Idle, at zero) after finitely many samples, unless a trigger call takes
\* it out of the stage first.
C10_DecayAndReleaseEnd ==
    /\ ((eg.stage = "Decay") ~> (eg.stage # "Decay"))
    /\ ((eg.stage = "Release") ~> (eg.stage # "Release"))

(***************************************************************************)
(* Properties of the wired patch, checked under SpecPatch.                 *)
(***************************************************************************)
\* the buffer the module wrote in the last process() call
buffer_of(id) ==
    produced[CHOOSE i \in 1 .. Len(walked) : walked[i] = id]

\* C11: in the patch of main(), once the buffers processed since the note
\* on cover more than the attack and decay times, every sample the envelope
\* writes is sustain x 5.0; once the buffers processed since the following
\* note off cover more than the release time, every sample it writes is 0.0
\* and its stage is Idle.
C11_PatchEnvelope ==
    (call.op = "process" /\ ret.kind = "buffer") =>
        /\ "eg" \in {walked[i] : i \in 1 .. Len(walked)}
        /\ (eg.gate /\ BufferAfter(attack_decay_samples(eg))) =>
              buffer_of("eg") =
                  [i \in 1 .. BufferSize |-> RMul(eg.sustain, <<5, 1>>)]
        /\ (~eg.gate /\ BufferAfter(release_samples(eg))) =>
              buffer_of("eg") = zeros /\ eg.stage = "Idle"

\* C11 witness: the note was held past attack and decay, released, and the
\* buffers since the release cover more than the release time
C11_Witness ==
    /\ call.op = "process"
    /\ ret.kind = "buffer"
    /\ ~eg.gate
    /\ cycles * BufferSize > elapsed
    /\ BufferAfter(release_samples(eg))
    /\ eg.stage = "Idle"

(***************************************************************************)
(* Properties of the oscillator and of the filter taken alone.             *)
(***************************************************************************)
\* C12 (under SpecVCO): after every sample the oscillator has processed,
\* whatever the frequency, the fm amount and the control voltages, the
\* phase lies in [0, 1), so that the sample (phase x 2 - 1) x 5 lies in
\* [-5, 5].
C12_PhaseInRange ==
    /\ RLe(Zero, vco.phase)
    /\ RLt(vco.phase, One)

\* C13 (under SpecVCF): fed the unit step from last_output = 0, the
\* filtered value stays between 0 and the input 1.0: it never overshoots
\* the input.
C13_StepNeverOvershoots ==
    /\ RLe(Zero, vcf.last_output)
    /\ RLe(vcf.last_output, One)

(***************************************************************************)
(* Properties of the two threads, checked under SpecLock.                  *)
(***************************************************************************)
\* the process() call that ends in this step leaves the modules and the
\* buffers as one uninterrupted process() call on the instances it found
\* when it was entered
CycleIsAtomic ==
    LET whole == process_walk(walk.entered, nodes, edges, processing_order,
                              Len(processing_order))
    IN  /\ produced' = whole.produced
        /\ instances = whole.m

\* C14: no mutex has two guards alive; while the control loop is inside
\* process() the command context holds no guard and applies nothing; every
\* process() call ends as one uninterrupted call would, so a command takes
\* effect entirely before or entirely after the cycle.
C14_ProcessSerialized ==
    /\ [](\A mutex \in DOMAIN held : Cardinality(held[mutex]) <= 1)
    /\ [](pc.run = "process" =>
             pc.input \in {"read", "lock"} /\ \A mutex \in DOMAIN held :
                                     "input" \notin held[mutex])
    /\ [][(pc.run = "process" /\ pc'.run = "send") => CycleIsAtomic]_vars

\* C14 witness: the control loop is between two modules of a cycle, a note
\* on was applied before the cycle and the envelope has been processed
C14_Witness ==
    /\ pc.run = "process"
    /\ walk.k = 2
    /\ eg.stage = "Attack"
    /\ RLt(Zero, eg.current_level)
    /\ held["engine"] = {"run"}

(***************************************************************************)
(* Properties of the processing order and of the routing of inputs.        *)
(***************************************************************************)
\* C15 (under Spec): the cached processing order holds every registered
\* module exactly once.
C15_OrderHoldsEveryModule ==
    /\ Len(processing_order) = Len(nodes)
    /\ \A node \in 1 .. Len(nodes) :
          \E i \in 1 .. Len(processing_order) : processing_order[i] = node

\* the walk of a process() call made in this state, up to the module at
\* position p of the order, and the input buffers collected for that module
walk_before(p) ==
    process_walk(instances, nodes, edges, processing_order, p - 1)

inputs_at(p) ==
    collect_inputs(
        [k \in 1 .. input_count(nodes[processing_order[p]]) |-> zeros],
        edges_directed(edges, processing_order[p], Len(edges)), nodes,
        walk_before(p).module_outputs)

\* C16 (under SpecPatch): what the oscillator computes from the concatenated
\* buffer is what it computes with fm_input read from input port 0 and
\* eg_input read from input port 1.
C16_InputsReadFromPorts ==
    \A p \in 1 .. Len(processing_order) :
        (/\ nodes[processing_order[p]] = "vco"
         /\ ~walk_before(p).panic
         /\ ~inputs_at(p).panic)
        => VCO_process(vco, concat(inputs_at(p).inputs), BufferSize).outputs
           = VCO_process(vco, <<inputs_at(p).inputs[1][1],
                                inputs_at(p).inputs[2][1]>>,
                         BufferSize).outputs

\* C17 (under Spec): a connect_modules call whose recomputation reports a
\* cycle leaves the cached order as it was; process() does not change the
\* order and a process() call that returns has run exactly the modules of
\* the order, in its sequence.
C17_CycleKeepsOrder ==
    /\ [][(call'.op = "connect_modules" /\ logged') =>
             processing_order' = processing_order]_vars
    /\ [][call'.op = "process" =>
             processing_order' = processing_order]_vars
    /\ []((call.op = "process" /\ ret.kind = "buffer") =>
             walked = [i \in 1 .. Len(processing_order) |->
                          nodes[processing_order[i]]])

\* C17 witness: process() has walked an order of two modules that a
\* cycle-closing connection left in place
C17_Witness ==
    /\ call.op = "process"
    /\ ret.kind = "buffer"
    /\ ~Acyclic(nodes, edges)
    /\ Len(processing_order) = 2
    /\ Len(walked) = 2

\* the incoming edges of the node, in the sequence process() visits them,
\* that target the input slot and whose source has written its buffer
live_edges(incoming, slot, module_outputs) ==
    SelectSeq(incoming,
              LAMBDA edge : /\ edge.weight[2] = slot
                            /\ nodes[edge.source] \in DOMAIN module_outputs)

\* every input slot of the module at position p holds the buffer of the
\* source of the edge visited last, zeros without one
SlotsHoldLastVisited(p) ==
    LET node == processing_order[p]
        w == walk_before(p)
        incoming == edges_directed(edges, node, Len(edges))
        c == collect_inputs([k \in 1 .. input_count(nodes[node]) |-> zeros],
                            incoming, nodes, w.module_outputs)
    IN  (~w.panic /\ ~c.panic) =>
            \A slot \in 0 .. input_count(nodes[node]) - 1 :
                LET live == live_edges(incoming, slot, w.module_outputs)
                IN  c.inputs[slot + 1] =
                        IF live = <<>>
                        THEN zeros
                        ELSE w.module_outputs[nodes[live[Len(live)].source]]

\* C18 (under Spec): connect_modules adds the connection whatever the
\* graph already holds for that destination and input; in a process()
\* cycle every input slot holds the buffer of one source, the one whose
\* edge is visited last, and not a mix of the sources' buffers.
C18_SlotHoldsOneSource ==
    /\ [][(/\ call'.op = "connect_modules"
           /\ call'.source \in modules
           /\ call'.destination \in modules)
          => /\ Len(edges') = Len(edges) + 1
             /\ edges'[Len(edges')].weight =
                    <<call'.source_output, call'.dest_input>>]_vars
    /\ [](\A p \in 1 .. Len(processing_order) : SlotsHoldLastVisited(p))

\* C18 witness: two connections into the same input of one module, from
\* two sources whose buffers in a cycle differ and are not silent
C18_Witness ==
    \E i, j \in 1 .. Len(edges) : \E p \in 1 .. Len(processing_order) :
        /\ i < j
        /\ edges[i].target = edges[j].target
        /\ edges[i].weight[2] = edges[j].weight[2]
        /\ edges[i].source # edges[j].source
        /\ processing_order[p] = edges[i].target
        /\ LET w == walk_before(p)
               a == nodes[edges[i].source]
               b == nodes[edges[j].source]
           IN  /\ ~w.panic
               /\ a \in DOMAIN w.module_outputs
               /\ b \in DOMAIN w.module_outputs
               /\ w.module_outputs[a] # zeros
               /\ w.module_outputs[b] # zeros
               /\ w.module_outputs[a] # w.module_outputs[b]

(***************************************************************************)
(* Invariants of the envelope generator, checked under SpecEG.             *)
(***************************************************************************)
\* C19: whatever trigger, setter and process calls were made, the level
\* lies in [0, 1] and every sample the envelope writes next lies in [0, 5].
C19_LevelInRange ==
    /\ RLe(Zero, eg.current_level)
    /\ RLe(eg.current_level, One)
    /\ LET outputs == EG_process(eg, MaxOutLen).outputs
       IN  \A i \in 1 .. MaxOutLen :
               RLe(Zero, outputs[i]) /\ RLe(outputs[i], <<5, 1>>)

\* C19 witness: a sustain level handed above the clamp has been reached
\* and is held at 1.0
C19_Witness ==
    /\ eg.stage = "Sustain"
    /\ eg.sustain = One
    /\ eg.current_level = One

\* C20: the gate is on exactly in Attack, Decay and Sustain and off exactly
\* in Idle and Release; a step into Release or into Idle ends with the gate
\* off, Idle being entered from Release alone; Attack is entered by
\* trigger_on alone.
C20_GateMatchesStage ==
    /\ [](eg.gate <=> eg.stage \in {"Attack", "Decay", "Sustain"})
    /\ [](~eg.gate <=> eg.stage \in {"Idle", "Release"})
    /\ [][(eg'.stage = "Release" /\ eg.stage # "Release") =>
             ~eg'.gate]_vars
    /\ [][(eg'.stage = "Idle" /\ eg.stage # "Idle") =>
             eg.stage = "Release" /\ ~eg.gate /\ ~eg'.gate]_vars
    /\ [][(eg'.stage = "Attack" /\ eg.stage # "Attack") =>
             triggered_from' # "None"]_vars

\* C20 witness: a note released at the sustain level is on its way down
C20_Witness ==
    /\ eg.stage = "Release"
    /\ ~eg.gate
    /\ RLt(Zero, eg.current_level)
    /\ RLt(eg.current_level, eg.sustain)

(***************************************************************************)
(* Freedom from deadlock of the two threads, checked under SpecLockFair.   *)
(***************************************************************************)
\* the mutexes of which the thread holds a guard
guards_of(thread) == {mutex \in DOMAIN held : thread \in held[mutex]}

\* C21: a thread that holds the guard of a module holds the guard of the
\* engine, and the control loop is inside process(), where it locks the
\* modules, only with the guard of the engine; a thread that waits for the
\* engine holds no guard; the control loop holds no guard when it sends
\* into the channel; and whenever the command context waits for the engine
\* it eventually holds its guard.
C21_NoDeadlock ==
    /\ [](\A thread \in {"run", "input"} :
             guards_of(thread) # {} => "engine" \in guards_of(thread))
    /\ [](pc.run = "process" => "engine" \in guards_of("run"))
    /\ [](pc.input = "lock" => guards_of("input") = {})
    /\ [](pc.run = "lock" => guards_of("run") = {})
    /\ [](pc.run = "send" => guards_of("run") = {})
    /\ ((pc.input = "lock") ~> ("engine" \in guards_of("input")))

\* C21 witness: the control loop is blocked on the full channel and the
\* command context, which waited for the engine while the loop was inside
\* process(), holds the guard of the engine and of a module
C21_Witness ==
    /\ pc.run = "send"
    /\ Len(queue) = QueueCapacity
    /\ cycles = MaxRunCycles
    /\ guards_of("input") = {"engine", "eg"}

====
